---- MODULE Spec2Model ----
(***************************************************************************)
(* QueueCTL: a single-machine job queue on one SQLite store.  The model    *)
(* follows the store calls of the Go source one call per step: every       *)
(* db.Exec / db.QueryRow is atomic, and nothing else is.                   *)
(*                                                                         *)
(*   jobs         the jobs table, rows in insertion (rowid) order          *)
(*   now          the wall clock, in seconds (RFC3339 has no finer grain)  *)
(*   pool         per OS process: 0 = globalWorkerPool is nil, else the    *)
(*                pool object StartWorkers installed                       *)
(*   pidFile      the process whose pid worker.pid holds, 0 = no file      *)
(*   wk           per worker goroutine: where it is in workerLoop /        *)
(*                GetNextPendingJob / processJob and its local variables   *)
(*   enqueueErr   the error the last `enqueue` command ended with          *)
(*   runs         per job id, the number of executeJob calls started       *)
(*   born         per job id, the attempts its row was inserted with       *)
(*   dlqRetries   per job id, the number of `dlq retry` commands that      *)
(*                reset it                                                 *)
(*   faults       the number of store calls that returned an error         *)
(*                                                                         *)
(*   delays       per job id, the delays (seconds) SetNextRetryAt was      *)
(*                called with for it, in order                             *)
(*   succeeded    per job id, whether an executeJob call for it returned   *)
(*                nil                                                      *)
(*   metrics      the metrics table, a missing key read as 0 (GetMetric)   *)
(*   job_executions  the job_executions table, rows in insertion order     *)
(*   cancelled    per pool object, whether its ctx is cancelled            *)
(*   stopping     per OS process: the pool object whose StopWorkers call   *)
(*                holds workerPoolMutex (0 = none), and whether the call   *)
(*                is the signal handler's, which ends in os.Exit(0)        *)
(*   config       the value of the key max-retries in the config table,    *)
(*                <<v>>, or <<>> when the table has no such key             *)
(*   calcArgs     the arguments of a CalculateBackoffDelay call made on    *)
(*                its own: a base and two attempt counts; <<>> = none      *)
(*   calcOut      the two durations it returned; <<>> = not yet called     *)
(*                                                                         *)
(* updated_at and output are left out of a row: no code reads them.        *)
(***************************************************************************)
EXTENDS Integers, Sequences, FiniteSets, TLC

VARIABLES jobs, now, pool, pidFile, wk, enqueueErr, runs, born, dlqRetries, faults,
          delays, succeeded, metrics, job_executions, calcArgs, calcOut,
          cancelled, stopping, config

vars == <<jobs, now, pool, pidFile, wk, enqueueErr, runs, born, dlqRetries, faults,
          delays, succeeded, metrics, job_executions, calcArgs, calcOut,
          cancelled, stopping, config>>

\* the variables of a CalculateBackoffDelay call made on its own
calcVars == <<calcArgs, calcOut>>

\* the variables of StopWorkers
stopVars == <<cancelled, stopping>>

(* ------------------------------ bounds -------------------------------- *)
MaxTime == 2
MaxWorkers == 2
MaxDLQRetries == 1
MaxRetriesIn == 2
MaxFaults == 1
MaxAttempt == 34

(* ------------------------- program constants -------------------------- *)
DefaultMaxRetries == 3
DefaultBackoffBase == 2
LeaseSeconds == 300

StatePending == "pending"
StateProcessing == "processing"
StateCompleted == "Completed"
StateFailed == "Failed"
StateDead == "Dead"

ErrInvalidJSON == "invalid JSON"
ErrMissingID == "missing job ID"
ErrMissingCommand == "missing job command"
ErrCreateJob == "failed to create job"

\* SQL NULL of a TEXT column that holds a name, and of one that holds a time
NullText == "NULL"
NullTime == 0 - 1

JobIds == {"a", "b"}
Procs == {1, 2}

\* The pool objects (NewWorkerPool) and the process each lives in: pool 1 is
\* the pool of process 1's `worker start`, pool 2 that of process 2's; pools 3
\* and 4 are further pool objects of process 1.  A worker goroutine is
\* <<pool, i>>, i the index StartWorkers counts.
Pools == {1, 2, 3, 4}
ProcOf == <<1, 2, 1, 1>>
Workers == {<<1, 1>>, <<1, 2>>, <<2, 1>>, <<3, 1>>}

\* fmt.Sprintf("worker-%d", i+1): the identity depends on the index alone
WorkerName == <<"worker-1", "worker-2">>

WorkerID(w) == WorkerName[w[2]]

(* ------------------------------ helpers ------------------------------- *)
\* a store call that returns an error (fault) uses up one of MaxFaults
StoreCall(fault) ==
    /\ fault => faults < MaxFaults
    /\ faults' = IF fault THEN faults + 1 ELSE faults

\* the rowid of the row with this id, 0 when there is none (id is PRIMARY KEY)
IndexOf(rows, id) ==
    IF \E i \in 1 .. Len(rows) : rows[i].id = id
    THEN CHOOSE i \in 1 .. Len(rows) : rows[i].id = id
    ELSE 0

\* UPDATE jobs SET ... WHERE id = ?: f is applied to the row, if there is one
UpdateWhereID(rows, id, f(_)) ==
    [i \in 1 .. Len(rows) |-> IF rows[i].id = id THEN f(rows[i]) ELSE rows[i]]

(* ----------------------------- submission ----------------------------- *)
\* The JSON documents `enqueue` is given.  A document that does not parse is
\* one value; a parsed one carries the fields of Job that have a json tag
\* (absent fields are Go's zero values: "" and 0).
MalformedPayload ==
    [wellFormed |-> FALSE, id |-> "", command |-> "", state |-> "",
     attempts |-> 0, max_retries |-> 0]

\* the (state, attempts, max_retries) a well-formed document may carry: the
\* documents of the README and of test.sh give max_retries alone ...
PlainFields == {""} \X {0} \X (1 .. MaxRetriesIn)

\* ... but "state" and "attempts" are json fields of Job as well, and
\* max_retries may be left out
AnyFields ==
    PlainFields \cup {<<"", 0, 0>>, <<StateProcessing, 0, 1>>, <<"", 1, 1>>}

Payload(id, command, f) ==
    [wellFormed |-> TRUE, id |-> id, command |-> command, state |-> f[1],
     attempts |-> f[2], max_retries |-> f[3]]

\* job "b" is always submitted as {"id":"b","command":"run","max_retries":1}
PlainPayloads ==
    {Payload("a", "run", f) : f \in PlainFields}
        \cup {Payload("b", "run", <<"", 0, 1>>)}

Payloads ==
    {MalformedPayload, Payload("", "run", <<"", 0, 0>>), Payload("a", "", <<"", 0, 0>>)}
        \cup {Payload("a", "run", f) : f \in AnyFields}

\* the values `config set max-retries <value>` stores: strconv.Atoi accepts
\* every integer, negative ones and 0 too
ConfigValues == {0 - 1, 0, 2}

\* GetConfigInt("max-retries", 3): the default when the config table has no
\* such key (a stored value always parses, configSetCmd having checked it)
GetConfigInt(defaultValue) == IF config = <<>> THEN defaultValue ELSE config[1]

ZeroJob == [id |-> "", command |-> "", state |-> "", attempts |-> 0, max_retries |-> 0]

ParseJobJSONNoCommandCheck(p) ==
    IF ~p.wellFormed THEN [err |-> ErrInvalidJSON, job |-> ZeroJob]
    ELSE IF p.id = "" THEN [err |-> ErrMissingID, job |-> ZeroJob]
    ELSE [err |-> "",
          job |-> [id |-> p.id, command |-> p.command,
                   state |-> IF p.state = "" THEN StatePending ELSE p.state,
                   attempts |-> p.attempts,
                   max_retries |-> IF p.max_retries <= 0
                                   THEN GetConfigInt(DefaultMaxRetries)
                                   ELSE p.max_retries]]

ParseJobJSON(p) ==
    IF ~p.wellFormed THEN [err |-> ErrInvalidJSON, job |-> ZeroJob]
    ELSE IF p.id = "" THEN [err |-> ErrMissingID, job |-> ZeroJob]
    ELSE IF p.command = "" THEN [err |-> ErrMissingCommand, job |-> ZeroJob]
    ELSE [err |-> "",
          job |-> [id |-> p.id, command |-> p.command,
                   state |-> IF p.state = "" THEN StatePending ELSE p.state,
                   attempts |-> p.attempts,
                   max_retries |-> IF p.max_retries <= 0
                                   THEN GetConfigInt(DefaultMaxRetries)
                                   ELSE p.max_retries]]

\* the row INSERT writes: the columns it names, the rest NULL or DEFAULT
NewRow(job, t) ==
    [id |-> job.id, command |-> job.command, state |-> job.state,
     attempts |-> job.attempts, max_retries |-> job.max_retries,
     created_at |-> t, last_error |-> "",
     next_retry_at |-> NullTime, locked_by |-> NullText, locked_at |-> NullTime]

CreateJobReplacing(rows, job, t, fault) ==
    IF fault THEN [err |-> ErrCreateJob, rows |-> rows]
    ELSE IF IndexOf(rows, job.id) # 0
         THEN [err |-> "", rows |-> UpdateWhereID(rows, job.id, LAMBDA r : NewRow(job, t))]
         ELSE [err |-> "", rows |-> Append(rows, NewRow(job, t))]

\* INSERT INTO jobs: the PRIMARY KEY rejects a second row with the id
CreateJob(rows, job, t, fault) ==
    IF fault \/ IndexOf(rows, job.id) # 0
    THEN [err |-> ErrCreateJob, rows |-> rows]
    ELSE [err |-> "", rows |-> Append(rows, NewRow(job, t))]

\* `queuectl enqueue <json>`: log.Fatalf ends the command on either error
enqueueCmd(p, fault) ==
    /\ fault => ParseJobJSON(p).err = ""
    /\ StoreCall(fault)
    /\ LET parsed == ParseJobJSON(p)
           made == CreateJob(jobs, parsed.job, now, fault)
       IN  IF parsed.err # ""
           THEN /\ enqueueErr' = parsed.err
                /\ jobs' = jobs
                /\ born' = born
           ELSE /\ enqueueErr' = made.err
                /\ jobs' = made.rows
                /\ born' = IF made.err = ""
                           THEN [born EXCEPT ![parsed.job.id] = parsed.job.attempts]
                           ELSE born
    /\ UNCHANGED <<now, pool, pidFile, wk, runs, dlqRetries,
                   delays, succeeded, metrics, job_executions, config, calcVars, stopVars>>

\* `queuectl config set max-retries <value>`
configSetCmd(value) ==
    /\ config' = <<value>>
    /\ UNCHANGED <<jobs, now, pool, pidFile, wk, enqueueErr, runs, born, dlqRetries,
                   faults, delays, succeeded, metrics, job_executions, calcVars,
                   stopVars>>

(* --------------------------- DLQ retry -------------------------------- *)
\* `queuectl dlq retry <id>`: a dead job goes back to pending with its lock
\* cleared.  Whether attempts stays as it is or goes back to 0 is left open:
\* reset tells which.  Any other job is left alone.
RetryDLQJob(rows, id, reset) ==
    UpdateWhereID(rows, id,
        LAMBDA r : IF r.state = StateDead
                   THEN [r EXCEPT !.state = StatePending,
                                  !.attempts = IF reset THEN 0 ELSE r.attempts,
                                  !.locked_by = NullText, !.locked_at = NullTime]
                   ELSE r)

DLQTotal == dlqRetries["a"] + dlqRetries["b"]

dlqRetryCmd(id, reset) ==
    /\ DLQTotal < MaxDLQRetries
    /\ IndexOf(jobs, id) # 0
    /\ jobs[IndexOf(jobs, id)].state = StateDead
    /\ jobs' = RetryDLQJob(jobs, id, reset)
    /\ dlqRetries' = [dlqRetries EXCEPT ![id] = @ + 1]
    /\ UNCHANGED <<now, pool, pidFile, wk, enqueueErr, runs, born, faults,
                   delays, succeeded, metrics, job_executions, config, calcVars, stopVars>>

(* ------------------------------ the pool ------------------------------ *)
\* a worker's place and locals: pc; jobID, the id the first SELECT returned
\* and, from pc = "job" on, job.ID; attempts and max_retries, job.Attempts and
\* job.MaxRetries; cur, currentAttempts; err, errorMsg ("" = nil); raced, set
\* while another call has won the job this call selected
OffLocals ==
    [pc |-> "off", jobID |-> "", attempts |-> 0, max_retries |-> 0,
     cur |-> 0, err |-> "", raced |-> FALSE]

LoopLocals == [OffLocals EXCEPT !.pc = "loop"]

ReturnFromLoop == OffLocals

\* workerLoop when GetNextPendingJob returned an error: log, sleep a second,
\* continue
SleepThenContinue == LoopLocals

Running == {w \in Workers : wk[w].pc # "off"}

\* no StopWorkers call holds workerPoolMutex in the process, which is alive
NoStop == [pool |-> 0, exit |-> FALSE]

\* the process has ended in os.Exit(0)
Exited == [pool |-> 0, exit |-> TRUE]

\* StartWorkers on pool object o with workerCount = count (`queuectl worker
\* start --count n` makes the object and calls it): under workerPoolMutex, an
\* error if globalWorkerPool is set; else it writes the pid file, installs the
\* pool and spawns worker-1 .. worker-n.  (The goroutines of a pool object
\* started a second time while its first ones still run are not told apart:
\* such a start is left out.)
StartWorkers(o, count) ==
    /\ stopping[ProcOf[o]] = NoStop
    /\ pool[ProcOf[o]] = 0
    /\ \A i \in 1 .. count : <<o, i>> \in Workers
    /\ \A w \in Workers : w[1] = o => wk[w].pc = "off"
    /\ Cardinality(Running) + count <= MaxWorkers
    /\ pidFile' = ProcOf[o]
    /\ pool' = [pool EXCEPT ![ProcOf[o]] = o]
    /\ wk' = [w \in Workers |->
                IF w[1] = o /\ w[2] <= count THEN LoopLocals ELSE wk[w]]
    /\ UNCHANGED <<jobs, now, enqueueErr, runs, born, dlqRetries, faults,
                   delays, succeeded, metrics, job_executions, config, calcVars, stopVars>>

NoWait(o) == TRUE

\* wp.wg.Wait(): every workerLoop of the pool object has returned
AllExited(o) == \A w \in Workers : w[1] = o => wk[w].pc = "off"

\* StopWorkers on pool object o, up to wp.cancel(): under workerPoolMutex, an
\* error (and nothing done) if globalWorkerPool is nil; else the ctx of o is
\* cancelled.  bySignal: the call is the one of the SIGINT/SIGTERM handler
\* that the StartWorkers of o installed, o being the pool of a `worker start`
\* command.
StopWorkersCancel(o, bySignal) ==
    /\ stopping[ProcOf[o]] = NoStop
    /\ pool[ProcOf[o]] # 0
    /\ bySignal => pool[ProcOf[o]] = o
    /\ cancelled' = [cancelled EXCEPT ![o] = TRUE]
    /\ stopping' = [stopping EXCEPT ![ProcOf[o]] = [pool |-> o, exit |-> bySignal]]
    /\ UNCHANGED <<jobs, now, pool, pidFile, wk, enqueueErr, runs, born, dlqRetries,
                   faults, delays, succeeded, metrics, job_executions, config, calcVars>>

\* StopWorkers from the return of wp.wg.Wait() on: os.Remove(wp.pidFile),
\* globalWorkerPool = nil, return nil; the signal handler then calls
\* os.Exit(0), which ends every goroutine of the process
StopWorkersReturn(o) ==
    /\ stopping[ProcOf[o]].pool = o
    /\ AllExited(o)
    /\ pidFile' = 0
    /\ pool' = [pool EXCEPT ![ProcOf[o]] = 0]
    /\ stopping' = [stopping EXCEPT ![ProcOf[o]] =
                        IF stopping[ProcOf[o]].exit THEN Exited ELSE NoStop]
    /\ wk' = IF stopping[ProcOf[o]].exit
             THEN [w \in Workers |-> IF ProcOf[w[1]] = ProcOf[o] THEN OffLocals ELSE wk[w]]
             ELSE wk
    /\ UNCHANGED <<jobs, now, enqueueErr, runs, born, dlqRetries, faults,
                   delays, succeeded, metrics, job_executions, config, calcVars, cancelled>>

AtAnyStoreCall(pc) == pc # "off"

\* the places of workerLoop at which it selects on wp.ctx.Done(): the top of
\* the for loop
AtSelect(pc) == pc = "loop"

\* workerLoop, the select at the top of the loop: case <-wp.ctx.Done(): return
workerLoopReturn(w) ==
    /\ AtSelect(wk[w].pc)
    /\ cancelled[w[1]]
    /\ wk' = [wk EXCEPT ![w] = OffLocals]
    /\ UNCHANGED <<jobs, now, pool, pidFile, enqueueErr, runs, born, dlqRetries,
                   faults, delays, succeeded, metrics, job_executions, config, calcVars,
                   stopVars>>

(* ------------------------- GetNextPendingJob -------------------------- *)
\* the WHERE clause of the first SELECT, evaluated at time t
Eligible(r, t) ==
    /\ r.state = StatePending
    /\ \/ r.locked_by = NullText
       \/ (r.locked_at # NullTime /\ r.locked_at < t - LeaseSeconds)
    /\ \/ r.next_retry_at = NullTime
       \/ r.next_retry_at <= t

\* ORDER BY created_at ASC LIMIT 1 (rows of one created_at: in rowid order);
\* 0 is sql.ErrNoRows
SelectNextPending(rows, t) ==
    LET el == {i \in 1 .. Len(rows) : Eligible(rows[i], t)}
    IN  IF el = {} THEN 0
        ELSE CHOOSE i \in el :
                \A k \in el : \/ rows[i].created_at < rows[k].created_at
                              \/ (rows[i].created_at = rows[k].created_at /\ i <= k)

ClaimAffectedAlways(rows, id) == 1

\* RowsAffected of the claim UPDATE ... WHERE id = ? AND state = 'pending'
ClaimAffected(rows, id) ==
    IF IndexOf(rows, id) # 0 /\ rows[IndexOf(rows, id)].state = StatePending
    THEN 1 ELSE 0

\* the claim UPDATE itself
ClaimUpdate(rows, id, workerID, t) ==
    UpdateWhereID(rows, id,
        LAMBDA r : IF r.state = StatePending
                   THEN [r EXCEPT !.locked_by = workerID, !.locked_at = t,
                                  !.state = StateProcessing]
                   ELSE r)

\* the rows the last SELECT may return: WHERE locked_by = ? AND state =
\* 'processing' ORDER BY locked_at DESC LIMIT 1 (SQL leaves the order of rows
\* of one locked_at open)
FetchClaimed(rows, workerID) ==
    LET mine == {i \in 1 .. Len(rows) :
                    rows[i].locked_by = workerID /\ rows[i].state = StateProcessing}
    IN  {i \in mine : \A k \in mine : rows[i].locked_at >= rows[k].locked_at}

\* workerLoop, from the top of the loop: the select takes default (the ctx is
\* not cancelled), then the first SELECT of GetNextPendingJob.  A store error
\* and "no rows" both send the worker back to the top (after a sleep).
Poll(w, fault) ==
    /\ wk[w].pc = "loop"
    /\ ~cancelled[w[1]]
    /\ StoreCall(fault)
    /\ LET i == SelectNextPending(jobs, now)
       IN  IF fault THEN wk' = [wk EXCEPT ![w] = SleepThenContinue]
           ELSE IF i = 0 THEN wk' = wk
           ELSE wk' = [wk EXCEPT ![w] = [LoopLocals EXCEPT !.pc = "claim",
                                                          !.jobID = jobs[i].id]]
    /\ UNCHANGED <<jobs, now, pool, pidFile, enqueueErr, runs, born, dlqRetries,
                   delays, succeeded, metrics, job_executions, config, calcVars, stopVars>>

\* the claim UPDATE and the RowsAffected test.  raced is set on every other
\* call that has selected the same job and not yet written.
Claim(w, fault) ==
    /\ wk[w].pc = "claim"
    /\ StoreCall(fault)
    /\ IF fault \/ ClaimAffected(jobs, wk[w].jobID) = 0
       THEN /\ wk' = [wk EXCEPT ![w] = IF fault THEN SleepThenContinue ELSE LoopLocals]
            /\ jobs' = jobs
       ELSE /\ jobs' = ClaimUpdate(jobs, wk[w].jobID, WorkerID(w), now)
            /\ wk' = [v \in Workers |->
                        IF v = w THEN [wk[w] EXCEPT !.pc = "fetch", !.raced = FALSE]
                        ELSE IF wk[v].pc = "claim" /\ wk[v].jobID = wk[w].jobID
                             THEN [wk[v] EXCEPT !.raced = TRUE]
                             ELSE wk[v]]
    /\ UNCHANGED <<now, pool, pidFile, enqueueErr, runs, born, dlqRetries,
                   delays, succeeded, metrics, job_executions, config, calcVars, stopVars>>

\* the last SELECT: the row handed to processJob
Fetch(w, fault) ==
    /\ wk[w].pc = "fetch"
    /\ StoreCall(fault)
    /\ IF fault \/ FetchClaimed(jobs, WorkerID(w)) = {}
       THEN wk' = [wk EXCEPT ![w] = IF fault THEN SleepThenContinue ELSE LoopLocals]
       ELSE \E i \in FetchClaimed(jobs, WorkerID(w)) :
                wk' = [wk EXCEPT ![w] = [LoopLocals EXCEPT
                                            !.pc = "job",
                                            !.jobID = jobs[i].id,
                                            !.attempts = jobs[i].attempts,
                                            !.max_retries = jobs[i].max_retries]]
    /\ UNCHANGED <<jobs, now, pool, pidFile, enqueueErr, runs, born, dlqRetries,
                   delays, succeeded, metrics, job_executions, config, calcVars, stopVars>>

(* ----------------------------- store calls ---------------------------- *)
\* UPDATE jobs SET state, last_error, locked_by = NULL, locked_at = NULL
\* WHERE id = ?
UpdateJobState(rows, id, state, lastError) ==
    UpdateWhereID(rows, id,
        LAMBDA r : [r EXCEPT !.state = state, !.last_error = lastError,
                             !.locked_by = NullText, !.locked_at = NullTime])

\* UPDATE jobs SET attempts = attempts + 1 WHERE id = ?
IncrementJobAttempts(rows, id) ==
    UpdateWhereID(rows, id, LAMBDA r : [r EXCEPT !.attempts = r.attempts + 1])

\* UPDATE jobs SET next_retry_at = ? WHERE id = ?
SetNextRetryAt(rows, id, nextRetry) ==
    UpdateWhereID(rows, id, LAMBDA r : [r EXCEPT !.next_retry_at = nextRetry])

(* ------------------------------ backoff ------------------------------- *)
RECURSIVE Pow(_, _)
Pow(b, e) == IF e <= 0 THEN 1 ELSE b * Pow(b, e - 1)

\* A number too wide for the checker's integers is a sequence of 16-bit
\* digits, least significant first: 4 digits for an int64 (time.Duration),
\* 8 digits for an intermediate result that must not wrap.  A float64 base is
\* a fraction <<numerator, denominator>>.
Wide(n) == [i \in 1 .. 8 |-> IF i = 1 THEN n % 65536 ELSE IF i = 2 THEN n \div 65536 ELSE 0]

\* x * n, the carry out of the last digit dropped: int64 multiplication wraps
RECURSIVE MulFrom(_, _, _, _)
MulFrom(x, n, i, carry) ==
    IF i > Len(x) THEN <<>>
    ELSE <<(x[i] * n + carry) % 65536>>
            \o MulFrom(x, n, i + 1, (x[i] * n + carry) \div 65536)

\* (y is x, worked out once)
Times(x, n) == CHOOSE r \in {MulFrom(y, n, 1, 0) : y \in {x}} : TRUE

\* x divided by n, rounded down
RECURSIVE DivFrom(_, _, _, _)
DivFrom(x, n, i, rem) ==
    IF i = 0 THEN <<>>
    ELSE Append(DivFrom(x, n, i - 1, (rem * 65536 + x[i]) % n),
                (rem * 65536 + x[i]) \div n)

Over(x, n) == CHOOSE r \in {DivFrom(y, n, Len(y), 0) : y \in {x}} : TRUE

\* x * n^k and x / n^k, one factor at a time (y is each intermediate result)
RECURSIVE TimesPow(_, _, _)
TimesPow(x, n, k) ==
    IF k = 0 THEN x
    ELSE CHOOSE r \in {TimesPow(y, n, k - 1) : y \in {Times(x, n)}} : TRUE

RECURSIVE OverPow(_, _, _)
OverPow(x, n, k) ==
    IF k = 0 THEN x
    ELSE CHOOSE r \in {OverPow(y, n, k - 1) : y \in {Over(x, n)}} : TRUE

\* the whole part of math.Pow(base, k), k >= 1: for the bases and exponents
\* used here float64 gives base^k closely enough for the whole part to be exact
PowTrunc(base, k) == OverPow(TimesPow(Wide(1), base[1], k), base[2], k)

\* time.Duration(f) of a float64 f with 0 <= f < 2^63: its whole part
InInt64(x) == x[4] < 32768 /\ \A i \in 5 .. 8 : x[i] = 0

Int64(x) == SubSeq(x, 1, 4)

\* d * time.Second, time.Second being 1000 * 1000 * 1000 ns
TimesSecond(d) == Times(Times(Times(d, 1000), 1000), 1000)

\* the sign of an int64 and the order of two
Negative(d) == d[4] >= 32768

LessEq64(x, y) ==
    IF Negative(x) # Negative(y) THEN Negative(x)
    ELSE \/ x = y
         \/ \E i \in 1 .. 4 : x[i] < y[i] /\ \A j \in (i + 1) .. 4 : x[j] = y[j]

\* the whole seconds of a duration d, 0 <= d < 2^31 s (time.Now().Add(d),
\* formatted as RFC3339)
Seconds(d) ==
    LET q == Over(Over(Over(d, 1000), 1000), 1000)
    IN  q[1] + 65536 * q[2]

\* delaySeconds := math.Pow(baseDelay, float64(attempts)), attempts <= 0 taken
\* as 1; return time.Duration(delaySeconds) * time.Second
CalculateBackoffDelay(attempts, baseDelay) ==
    TimesSecond(Int64(PowTrunc(baseDelay, IF attempts <= 0 THEN 1 ELSE attempts)))

\* the bases (all >= 1) and the largest attempt count of the calls made on
\* their own; base^attempts < 2^63 for all of them
BackoffBases == {<<1, 1>>, <<3, 2>>, <<2, 1>>}

\* one CalculateBackoffDelay call for each of the two attempt counts
backoffCall ==
    /\ calcArgs # <<>>
    /\ calcOut = <<>>
    /\ InInt64(PowTrunc(calcArgs[1], calcArgs[3]))
    /\ calcOut' = <<CalculateBackoffDelay(calcArgs[2], calcArgs[1]),
                    CalculateBackoffDelay(calcArgs[3], calcArgs[1])>>
    /\ UNCHANGED <<jobs, now, pool, pidFile, wk, enqueueErr, runs, born, dlqRetries,
                   faults, delays, succeeded, metrics, job_executions, config,
                   calcArgs, stopVars>>

(* ----------------------------- processJob ----------------------------- *)
\* what executeJob returns: nil, or the error of a command that exited with a
\* code other than 0, or the error of one that outlasted its deadline
ErrExitCode == "command exited with code 1"
ErrTimeout == "job timeout after 5m0s"
ErrExecFailed == "command execution failed"

ExecOutcomes == {"", ErrExitCode, ErrTimeout, ErrExecFailed}

ProcessJobEndsWorker(err) == IF err = "" THEN LoopLocals ELSE OffLocals

\* processJob returns, whatever executeJob returned, and workerLoop goes back
\* to the top of its loop
ProcessJobReturns(err) == LoopLocals

\* processJob up to the return of executeJob: IncrementJobAttempts (an error
\* is logged and the command runs all the same), then sh -c command
Execute(w, fault, outcome) ==
    /\ wk[w].pc = "job"
    /\ StoreCall(fault)
    /\ jobs' = IF fault THEN jobs ELSE IncrementJobAttempts(jobs, wk[w].jobID)
    /\ runs' = [runs EXCEPT ![wk[w].jobID] = @ + 1]
    /\ wk' = [wk EXCEPT ![w].pc = IF outcome = "" THEN "complete" ELSE "read",
                        ![w].err = outcome]
    /\ succeeded' = [succeeded EXCEPT ![wk[w].jobID] = @ \/ outcome = ""]
    /\ UNCHANGED <<now, pool, pidFile, enqueueErr, born, dlqRetries,
                   delays, metrics, job_executions, config, calcVars, stopVars>>

\* err == nil: UpdateJobState(job.ID, StateCompleted, "") and return
Complete(w, fault) ==
    /\ wk[w].pc = "complete"
    /\ StoreCall(fault)
    /\ jobs' = IF fault THEN jobs
               ELSE UpdateJobState(jobs, wk[w].jobID, StateCompleted, "")
    /\ wk' = [wk EXCEPT ![w] = ProcessJobReturns("")]
    /\ UNCHANGED <<now, pool, pidFile, enqueueErr, runs, born, dlqRetries,
                   delays, succeeded, metrics, job_executions, config, calcVars, stopVars>>

\* currentAttempts: the attempts column read back, or job.Attempts + 1 when
\* the read fails
CurrentAttempts(w, fault) ==
    IF fault \/ IndexOf(jobs, wk[w].jobID) = 0
    THEN wk[w].attempts + 1
    ELSE jobs[IndexOf(jobs, wk[w].jobID)].attempts

RetryDecisionStrict(currentAttempts, maxRetries) ==
    IF currentAttempts > maxRetries THEN "dead" ELSE "retry"

\* if currentAttempts >= job.MaxRetries { DLQ } else { retry }
RetryDecision(currentAttempts, maxRetries) ==
    IF currentAttempts >= maxRetries THEN "dead" ELSE "retry"

ReadAttempts(w, fault) ==
    /\ wk[w].pc = "read"
    /\ StoreCall(fault)
    /\ wk' = [wk EXCEPT ![w].cur = CurrentAttempts(w, fault),
                        ![w].pc = RetryDecision(CurrentAttempts(w, fault),
                                                wk[w].max_retries)]
    /\ UNCHANGED <<jobs, now, pool, pidFile, enqueueErr, runs, born, dlqRetries,
                   delays, succeeded, metrics, job_executions, config, calcVars, stopVars>>

\* UpdateJobState(job.ID, StateDead, errorMsg)
ToDead(w, fault) ==
    /\ wk[w].pc = "dead"
    /\ StoreCall(fault)
    /\ jobs' = IF fault THEN jobs
               ELSE UpdateJobState(jobs, wk[w].jobID, StateDead, wk[w].err)
    /\ wk' = [wk EXCEPT ![w] = ProcessJobReturns(wk[w].err)]
    /\ UNCHANGED <<now, pool, pidFile, enqueueErr, runs, born, dlqRetries,
                   delays, succeeded, metrics, job_executions, config, calcVars, stopVars>>

\* SetNextRetryAt(job.ID, now + CalculateBackoffDelay(currentAttempts, base))
SetRetry(w, fault) ==
    /\ wk[w].pc = "retry"
    /\ StoreCall(fault)
    /\ jobs' = IF fault THEN jobs
               ELSE SetNextRetryAt(jobs, wk[w].jobID,
                        now + Seconds(CalculateBackoffDelay(wk[w].cur,
                                                            <<DefaultBackoffBase, 1>>)))
    /\ delays' = IF fault THEN delays
                 ELSE [delays EXCEPT ![wk[w].jobID] =
                          Append(@, Seconds(CalculateBackoffDelay(wk[w].cur,
                                                  <<DefaultBackoffBase, 1>>)))]
    /\ wk' = [wk EXCEPT ![w].pc = "pending"]
    /\ UNCHANGED <<now, pool, pidFile, enqueueErr, runs, born, dlqRetries,
                   succeeded, metrics, job_executions, config, calcVars, stopVars>>

\* UpdateJobState(job.ID, StatePending, errorMsg)
ToPending(w, fault) ==
    /\ wk[w].pc = "pending"
    /\ StoreCall(fault)
    /\ jobs' = IF fault THEN jobs
               ELSE UpdateJobState(jobs, wk[w].jobID, StatePending, wk[w].err)
    /\ wk' = [wk EXCEPT ![w] = ProcessJobReturns(wk[w].err)]
    /\ UNCHANGED <<now, pool, pidFile, enqueueErr, runs, born, dlqRetries,
                   delays, succeeded, metrics, job_executions, config, calcVars, stopVars>>

(* ------------------------- metrics and queries ------------------------ *)
\* the keys GetExecutionStats reads
MetricKeys == {"jobs_processed", "jobs_succeeded", "jobs_failed", "jobs_timeout"}

\* INSERT INTO metrics ... ON CONFLICT(key) DO UPDATE SET value = value + 1.
\* No function under src/ calls it: no action below changes metrics.
IncrementMetric(table, key) == [table EXCEPT ![key] = @ + 1]

\* SELECT value FROM metrics WHERE key = ?
GetMetric(key) == metrics[key]

\* INSERT INTO job_executions (job_id, ..., success, timeout, error).  No
\* function under src/ calls it: no action below changes job_executions.
RecordJobExecution(rows, jobID, success, timeout, errMsg) ==
    Append(rows, [job_id |-> jobID, success |-> success, timeout |-> timeout,
                  error |-> errMsg])

\* SELECT ... FROM jobs WHERE state = ? ORDER BY created_at ASC: the ids
GetJobsByState(rows, state) ==
    {rows[i].id : i \in {k \in 1 .. Len(rows) : rows[k].state = state}}

\* `queuectl list --state <flag>`: the flag is compared, as it was typed, with
\* the five JobState constants; any other value ends the command in
\* log.Fatalf("Invalid state: ...")
listCmd(rows, stateFlag) ==
    IF stateFlag \in {StatePending, StateProcessing, StateCompleted, StateFailed, StateDead}
    THEN [err |-> "", ids |-> GetJobsByState(rows, stateFlag)]
    ELSE [err |-> "Invalid state", ids |-> {}]

\* GetJobCountsByState: SELECT state, COUNT(*) FROM jobs GROUP BY state, read
\* into a map; counts[state] is 0 for a state no row has
GetJobCountsByState(rows, state) ==
    Cardinality({i \in 1 .. Len(rows) : rows[i].state = state})

\* `queuectl status`: the five counts it prints, Pending to Dead
statusCmd(rows) ==
    <<GetJobCountsByState(rows, StatePending), GetJobCountsByState(rows, StateProcessing),
      GetJobCountsByState(rows, StateCompleted), GetJobCountsByState(rows, StateFailed),
      GetJobCountsByState(rows, StateDead)>>

(* ------------------------------- clock -------------------------------- *)
Tick ==
    /\ now < MaxTime
    /\ now' = now + 1
    /\ UNCHANGED <<jobs, pool, pidFile, wk, enqueueErr, runs, born, dlqRetries, faults,
                   delays, succeeded, metrics, job_executions, config, calcVars, stopVars>>

\* the clock goes on for as long as a pending job waits for its next_retry_at
TickUntilDue ==
    /\ \E i \in 1 .. Len(jobs) :
          jobs[i].state = StatePending /\ jobs[i].next_retry_at > now
    /\ now' = now + 1
    /\ UNCHANGED <<jobs, pool, pidFile, wk, enqueueErr, runs, born, dlqRetries, faults,
                   delays, succeeded, metrics, job_executions, config, calcVars,
                   stopVars>>

\* more than the lease window of the first SELECT goes by at once
LeaseElapses ==
    /\ now <= MaxTime
    /\ now' = now + LeaseSeconds + 1
    /\ UNCHANGED <<jobs, pool, pidFile, wk, enqueueErr, runs, born, dlqRetries, faults,
                   delays, succeeded, metrics, job_executions, config, calcVars, stopVars>>

(* --------------------------- specifications --------------------------- *)
QueueInit ==
    /\ jobs = <<>>
    /\ now = 0
    /\ pool = [p \in Procs |-> 0]
    /\ pidFile = 0
    /\ wk = [w \in Workers |-> OffLocals]
    /\ enqueueErr = ""
    /\ runs = [j \in JobIds |-> 0]
    /\ born = [j \in JobIds |-> 0]
    /\ dlqRetries = [j \in JobIds |-> 0]
    /\ faults = 0
    /\ delays = [j \in JobIds |-> <<>>]
    /\ succeeded = [j \in JobIds |-> FALSE]
    /\ metrics = [k \in MetricKeys |-> 0]
    /\ job_executions = <<>>
    /\ cancelled = [o \in Pools |-> FALSE]
    /\ stopping = [p \in Procs |-> NoStop]
    /\ config = <<>>

Init ==
    /\ QueueInit
    /\ calcArgs = <<>>
    /\ calcOut = <<>>

\* the steps of a system that is given the documents P, whose `worker start`
\* commands are S (process, count), whose store calls fail as F allows and
\* whose commands end as O allows
NextOf(P, S, F, O) ==
    \/ \E p \in P, fault \in F : enqueueCmd(p, fault)
    \/ \E id \in JobIds, reset \in BOOLEAN : dlqRetryCmd(id, reset)
    \/ \E s \in S : StartWorkers(s[1], s[2])
    \/ \E w \in Workers, fault \in F : Poll(w, fault)
    \/ \E w \in Workers, fault \in F : Claim(w, fault)
    \/ \E w \in Workers, fault \in F : Fetch(w, fault)
    \/ \E w \in Workers, fault \in F, outcome \in O : Execute(w, fault, outcome)
    \/ \E w \in Workers, fault \in F : Complete(w, fault)
    \/ \E w \in Workers, fault \in F : ReadAttempts(w, fault)
    \/ \E w \in Workers, fault \in F : ToDead(w, fault)
    \/ \E w \in Workers, fault \in F : SetRetry(w, fault)
    \/ \E w \in Workers, fault \in F : ToPending(w, fault)
    \/ Tick

\* Two workers on a store that works and commands that exit in time: one process started with --count 2, or
\* two processes started with --count 1 on the same data directory.
Next == NextOf(PlainPayloads, {<<1, 1>>, <<1, 2>>, <<2, 1>>}, {FALSE}, {"", ErrExitCode})

Spec == Init /\ [][Next]_vars

\* One process started with --count 1 or 2, one job id, every kind of
\* document, and up to MaxFaults failing store calls.
FaultNext == NextOf(Payloads, {<<1, 1>>, <<1, 2>>}, BOOLEAN, {"", ErrExitCode})

FaultSpec == Init /\ [][FaultNext]_vars

\* `worker start --count 1` in one process, as test.sh runs it: one worker, the
\* documents of the README (with max_retries or without), a store that works,
\* commands that may time out.
OneWorkerNext ==
    NextOf(PlainPayloads \cup {Payload("a", "run", <<"", 0, 0>>)}, {<<1, 1>>}, {FALSE},
           ExecOutcomes)

OneWorkerSpec == Init /\ [][OneWorkerNext]_vars

\* One `worker start --count 1` or `--count 2` process and job "a", with the
\* SIGINT or SIGTERM that `worker stop`, Ctrl-C or timeout(1) sends it.
StopNext ==
    \/ NextOf({Payload("a", "run", f) : f \in PlainFields}, {<<1, 1>>, <<1, 2>>}, {FALSE},
              {"", ErrExitCode})
    \/ \E o \in {1} : StopWorkersCancel(o, TRUE)
    \/ \E o \in {1} : StopWorkersReturn(o)
    \/ \E w \in Workers : workerLoopReturn(w)

StopSpec == Init /\ [][StopNext]_vars

\* One `worker start --count 1` process on a store that works, job "a"
\* submitted with max_retries or without, and `config set max-retries`.
ConfigNext ==
    \/ NextOf({Payload("a", "run", f) : f \in PlainFields \cup {<<"", 0, 0>>}}, {<<1, 1>>},
              {FALSE}, {"", ErrExitCode})
    \/ \E value \in ConfigValues : configSetCmd(value)

ConfigSpec == Init /\ [][ConfigNext]_vars

\* One `worker start --count 2` process on a store that works, job "a" with
\* the largest max_retries and job "b".
TwoWorkerNext ==
    NextOf({Payload("a", "run", <<"", 0, MaxRetriesIn>>), Payload("b", "run", <<"", 0, 1>>)},
           {<<1, 2>>}, {FALSE}, {"", ErrExitCode})

TwoWorkerSpec == Init /\ [][TwoWorkerNext]_vars

\* One `worker start --count 2` process on a store that works, job "a" and
\* job "b", and a clock that may run past the lease window while a worker is
\* inside executeJob.
LeaseNext ==
    \/ NextOf(PlainPayloads, {<<1, 2>>}, {FALSE}, {"", ErrExitCode})
    \/ LeaseElapses

LeaseSpec == Init /\ [][LeaseNext]_vars

\* One process started with --count 1 or 2, job "a", up to MaxFaults failing
\* store calls and the SIGINT or SIGTERM that stops the process.
FaultStopNext ==
    \/ NextOf({Payload("a", "run", f) : f \in PlainFields}, {<<1, 1>>, <<1, 2>>}, BOOLEAN,
              {"", ErrExitCode})
    \/ \E o \in {1} : StopWorkersCancel(o, TRUE)
    \/ \E o \in {1} : StopWorkersReturn(o)
    \/ \E w \in Workers : workerLoopReturn(w)

FaultStopSpec == Init /\ [][FaultStopNext]_vars

\* `queuectl worker stop` run in a process of its own, where GetWorkerPool()
\* is nil: it reads worker.pid and sends os.Interrupt to the process it names,
\* whose signal handler calls StopWorkers on the pool o it started
workerStopCmd(o) ==
    /\ pidFile = ProcOf[o]
    /\ StopWorkersCancel(o, TRUE)

\* Two `worker start --count 1` processes on one data directory, job "a" on a
\* store that works, and `worker stop`.
TwoProcStopNext ==
    \/ NextOf({Payload("a", "run", f) : f \in PlainFields}, {<<1, 1>>, <<2, 1>>}, {FALSE},
              {"", ErrExitCode})
    \/ \E o \in {1, 2} : workerStopCmd(o)
    \/ \E o \in {1, 2} : StopWorkersReturn(o)
    \/ \E w \in Workers : workerLoopReturn(w)

TwoProcStopSpec == Init /\ [][TwoProcStopNext]_vars

\* One `worker start --count 1` process on a store that works and job "a",
\* submitted as the README shows or with a "state" field (here "completed",
\* the spelling of the `list --state` help text).
StatusNext ==
    NextOf({Payload("a", "run", f) : f \in PlainFields \cup {<<"completed", 0, 1>>}},
           {<<1, 1>>}, {FALSE}, {"", ErrExitCode})

StatusSpec == Init /\ [][StatusNext]_vars

\* the steps of worker goroutine w on a store that works
workerLoop(w) ==
    \/ Poll(w, FALSE) \/ Claim(w, FALSE) \/ Fetch(w, FALSE)
    \/ \E outcome \in ExecOutcomes : Execute(w, FALSE, outcome)
    \/ Complete(w, FALSE) \/ ReadAttempts(w, FALSE) \/ ToDead(w, FALSE)
    \/ SetRetry(w, FALSE) \/ ToPending(w, FALSE)
    \/ workerLoopReturn(w)

\* StopSpec with the Go scheduler running every goroutine that can run: each
\* worker goroutine (its command ends, or its deadline does) and the
\* goroutine inside StopWorkers
FairStopSpec ==
    /\ StopSpec
    /\ \A w \in {<<1, 1>>, <<1, 2>>} : WF_vars(workerLoop(w))
    /\ WF_vars(StopWorkersReturn(1))

\* `worker start --count 1` on a store that works, with job "a" submitted
\* without max_retries and job "b", commands that end in every way
\* executeJob tells apart, and the Go scheduler running the worker goroutine.
FailureNext ==
    NextOf({Payload("a", "run", <<"", 0, 0>>), Payload("b", "run", <<"", 0, 1>>)},
           {<<1, 1>>}, {FALSE}, ExecOutcomes)

FairFailureSpec ==
    /\ Init /\ [][FailureNext]_vars
    /\ WF_vars(workerLoop(<<1, 1>>))

\* Workers that are scheduled and a clock that goes on, on a store that works:
\* `worker start --count 1` in each of two processes on one data directory,
\* job "a" with the largest max_retries and job "b".
LiveNext ==
    \/ NextOf({Payload("a", "run", <<"", 0, MaxRetriesIn>>),
               Payload("b", "run", <<"", 0, 1>>)},
              {<<1, 1>>, <<2, 1>>}, {FALSE}, {"", ErrExitCode})
    \/ TickUntilDue

LiveSpec ==
    /\ Init /\ [][LiveNext]_vars
    /\ \A w \in {<<1, 1>>, <<2, 1>>} : WF_vars(workerLoop(w))
    /\ WF_vars(TickUntilDue)

\* the same with one `worker start --count 2` process only
LiveOneProcNext ==
    \/ NextOf(PlainPayloads, {<<1, 1>>, <<1, 2>>}, {FALSE}, {"", ErrExitCode})
    \/ TickUntilDue

LiveOneProcSpec ==
    /\ Init /\ [][LiveOneProcNext]_vars
    /\ \A w \in {<<1, 1>>, <<1, 2>>} : WF_vars(workerLoop(w))
    /\ WF_vars(TickUntilDue)

\* FaultStopSpec with the Go scheduler running every worker goroutine: a
\* store call that works is made in the end
FairFaultStopSpec ==
    /\ FaultStopSpec
    /\ \A w \in {<<1, 1>>, <<1, 2>>} : WF_vars(workerLoop(w))

\* StartWorkers and StopWorkers called in any order on the pool objects 1, 3
\* and 4 of one process (pool 4 is never started), and job "a".
PoolNext ==
    \/ NextOf({Payload("a", "run", f) : f \in PlainFields}, {<<1, 1>>, <<3, 1>>}, {FALSE},
              {"", ErrExitCode})
    \/ \E o \in {1, 3, 4} : StopWorkersCancel(o, FALSE)
    \/ \E o \in {1, 3, 4} : StopWorkersReturn(o)
    \/ \E w \in Workers : workerLoopReturn(w)

PoolSpec == Init /\ [][PoolNext]_vars

\* CalculateBackoffDelay on its own: a base and two attempt counts a <= b, as
\* a job with max_retries >= b reaches them, and the call for each
BackoffInit ==
    /\ QueueInit
    /\ calcArgs \in {<<base, a, b>> : base \in BackoffBases,
                                     a \in 1 .. MaxAttempt, b \in 1 .. MaxAttempt}
    /\ calcArgs[2] <= calcArgs[3]
    /\ calcOut = <<>>

BackoffNext == backoffCall

BackoffSpec == BackoffInit /\ [][BackoffNext]_vars

(* ------------------------------ claims -------------------------------- *)
InLifecycle(w) == wk[w].pc \in {"job", "complete", "read", "dead", "retry", "pending"}

\* the step of w in which its claim UPDATE affects a row
ClaimWins(w) == wk[w].pc = "claim" /\ wk'[w].pc = "fetch"

\* C1: of the calls that selected the same pending job, one wins it and each
\* other gets "no job": a call whose selected job another call has won in the
\* meantime does not win it too (stated for runs without a DLQ retry).
C1_ExactlyOneWins ==
    [][\A w \in Workers : (ClaimWins(w) /\ DLQTotal = 0) => ~wk[w].raced]_vars

\* C2: no two workers are inside processJob for the same job at once.
C2_NoOverlap ==
    \A v, w \in Workers :
        (v # w /\ InLifecycle(v) /\ InLifecycle(w)) => wk[v].jobID # wk[w].jobID

\* C3: a job's state changes only along pending->processing,
\* processing->completed, processing->pending (attempts < max_retries),
\* processing->dead (attempts >= max_retries) and dead->pending by DLQ retry.
C3_TransitionGraph ==
    [][\A i \in 1 .. Len(jobs) :
          LET r == jobs[i]
              q == jobs'[i]
          IN  \/ q.state = r.state
              \/ r.state = StatePending /\ q.state = StateProcessing
              \/ r.state = StateProcessing /\ q.state = StateCompleted
              \/ r.state = StateProcessing /\ q.state = StatePending
                                           /\ r.attempts < r.max_retries
              \/ r.state = StateProcessing /\ q.state = StateDead
                                           /\ r.attempts >= r.max_retries
              \/ r.state = StateDead /\ q.state = StatePending
                                     /\ dlqRetries' # dlqRetries]_vars

\* C4: locked_by and locked_at are both set if and only if the job is
\* processing.
C4_LockIffProcessing ==
    \A i \in 1 .. Len(jobs) :
        (jobs[i].locked_by # NullText /\ jobs[i].locked_at # NullTime)
            <=> jobs[i].state = StateProcessing

\* C5: the job a claim moves to processing is the first one, in created_at
\* order, of the jobs that are eligible when the claim takes effect (stated
\* for runs without a DLQ retry).
C5_FifoAtClaim ==
    [][\A w \in Workers :
          (ClaimWins(w) /\ DLQTotal = 0)
              => IndexOf(jobs, wk[w].jobID) = SelectNextPending(jobs, now)]_vars

\* C6: the row a submission inserts has state pending and attempts 0.
C6_CreatedPendingZero ==
    [][Len(jobs') > Len(jobs) =>
          /\ jobs'[Len(jobs')].state = StatePending
          /\ jobs'[Len(jobs')].attempts = 0]_vars

\* C7: submitting a document whose id is already in the table ends with an
\* error and leaves every row, and the set of rows, as it was: a step that
\* does otherwise is a step of a worker, or at least not the enqueue of such
\* a document.
C7_DuplicateRejected ==
    [][(jobs' = jobs /\ enqueueErr' = ErrCreateJob)
          \/ wk' # wk
          \/ \A p \in Payloads, fault \in BOOLEAN :
                ~(/\ ParseJobJSON(p).err = ""
                  /\ IndexOf(jobs, p.id) # 0
                  /\ enqueueCmd(p, fault))]_vars

\* a duplicate was rejected: the store has not failed, so the enqueue that
\* ended in ErrCreateJob named an id in use; the job of that id has run
C7_Witness ==
    /\ enqueueErr = ErrCreateJob
    /\ faults = 0
    /\ \E i \in 1 .. Len(jobs) : jobs[i].state = StateCompleted /\ jobs[i].attempts > 0

\* C8: a document that is not well-formed, or has no id, or has no command,
\* ends in a validation error, and no row is created or changed: a step that
\* does otherwise is a step of a worker, or at least not the enqueue of such
\* a document.
C8_InvalidRejected ==
    [][(/\ jobs' = jobs
        /\ enqueueErr' \in {ErrInvalidJSON, ErrMissingID, ErrMissingCommand})
          \/ wk' # wk
          \/ \A p \in Payloads, fault \in BOOLEAN :
                ~(/\ (~p.wellFormed \/ p.id = "" \/ p.command = "")
                  /\ enqueueCmd(p, fault))]_vars

\* a document without a command was rejected while the table held a row
C8_Witness ==
    /\ enqueueErr = ErrMissingCommand
    /\ Len(jobs) > 0

\* C9: attempts equals the number of executions started for the job.
C9_AttemptsCountRuns ==
    \A i \in 1 .. Len(jobs) : jobs[i].attempts = runs[jobs[i].id]

C11_RetryThenDead ==
    [][\A i \in 1 .. Len(jobs) :
          LET r == jobs[i]
              q == jobs'[i]
          IN  (dlqRetries'[r.id] = 0 /\ ~succeeded'[r.id]) =>
                /\ delays'[r.id] # delays[r.id]
                      => /\ runs[r.id] < r.max_retries
                         /\ q.next_retry_at = now + Pow(DefaultBackoffBase, runs[r.id])
                /\ (r.state = StateProcessing /\ q.state = StatePending)
                      => /\ runs[r.id] < r.max_retries
                         /\ Len(delays[r.id]) = runs[r.id]
                /\ (r.state # StateDead /\ q.state = StateDead)
                      => /\ runs[r.id] = r.max_retries
                         /\ Len(delays[r.id]) = r.max_retries - 1]_vars

\* C12, as claimed: a job with max_retries = 2 (backoff base 2) whose command
\* fails every time, once dead and not touched by a DLQ retry, has been
\* executed twice, its retries were scheduled with delays of 2 s and then
\* 4 s, and its attempts is 2.
C12_DelaysTwoThenFour ==
    \A i \in 1 .. Len(jobs) :
        (/\ jobs[i].max_retries = 2
         /\ jobs[i].state = StateDead
         /\ dlqRetries[jobs[i].id] = 0
         /\ ~succeeded[jobs[i].id])
            => /\ runs[jobs[i].id] = 2
               /\ delays[jobs[i].id] = <<2, 4>>
               /\ jobs[i].attempts = 2

\* C12, amended: such a job is executed twice and is dead with attempts = 2;
\* one retry is scheduled, with a delay of 2 s, after the first failure, and
\* none after the second.
C12_OneDelayOfTwo ==
    \A i \in 1 .. Len(jobs) :
        (/\ jobs[i].max_retries = 2
         /\ dlqRetries[jobs[i].id] = 0
         /\ ~succeeded[jobs[i].id])
            => /\ delays[jobs[i].id] \in {<<>>, <<2>>}
               /\ jobs[i].state = StateDead
                     => /\ runs[jobs[i].id] = 2
                        /\ delays[jobs[i].id] = <<2>>
                        /\ jobs[i].attempts = 2

\* a job with max_retries = 2 is dead after two failed executions
C12_Witness ==
    \E i \in 1 .. Len(jobs) :
        /\ jobs[i].max_retries = 2
        /\ jobs[i].state = StateDead
        /\ dlqRetries[jobs[i].id] = 0
        /\ ~succeeded[jobs[i].id]
        /\ runs[jobs[i].id] = 2

\* C13: CalculateBackoffDelay(attempt, base) is floor(base^attempt) seconds for
\* every attempt >= 1: the duration returned is that many seconds, in
\* nanoseconds, with nothing lost; for base 2 and attempts 1, 2, 3 it is 2 s,
\* 4 s and 8 s.
C13_FloorSeconds ==
    calcOut # <<>> =>
        \A k \in {1, 2} :
            /\ ~Negative(calcOut[k])
            /\ calcOut[k] \o [i \in 1 .. 4 |-> 0]
                  = TimesSecond(PowTrunc(calcArgs[1], calcArgs[k + 1]))
            /\ (calcArgs[1] = <<2, 1>> /\ calcArgs[k + 1] <= 3)
                  => Seconds(calcOut[k]) = Pow(2, calcArgs[k + 1])

\* C14: for a base >= 1 and attempt counts a <= b, the 64-bit duration
\* returned for a is at most the one returned for b.
C14_Monotone ==
    calcOut # <<>> => LessEq64(calcOut[1], calcOut[2])

\* C15: a job submitted with only id and command, whose command exits 0, is
\* after one claim-and-attempt cycle of one worker completed, with attempts 1,
\* an empty last_error, no lock, and one execution record, of a success; and
\* the by-state query for "completed" returns it.
C15_CompletedAfterOneCycle ==
    \A i \in 1 .. Len(jobs) :
        (/\ jobs[i].max_retries = GetConfigInt(DefaultMaxRetries)
         /\ runs[jobs[i].id] = 1
         /\ succeeded[jobs[i].id]
         /\ \A w \in Workers : InLifecycle(w) => wk[w].jobID # jobs[i].id)
            => /\ jobs[i].state = StateCompleted
               /\ jobs[i].attempts = 1
               /\ jobs[i].last_error = ""
               /\ jobs[i].locked_by = NullText /\ jobs[i].locked_at = NullTime
               /\ Cardinality({k \in 1 .. Len(job_executions) :
                                  job_executions[k].job_id = jobs[i].id}) = 1
               /\ \A k \in 1 .. Len(job_executions) :
                     job_executions[k].job_id = jobs[i].id => job_executions[k].success
               /\ jobs[i].id \in listCmd(jobs, "completed").ids

\* C16: a job with max_retries = 1 whose one attempt timed out (the only
\* attempt made so far, of any job) is dead with attempts = 1, no retry was
\* scheduled for it, and jobs_timeout, 0 at the start, is 1.
C16_TimeoutGoesDead ==
    \A i \in 1 .. Len(jobs) :
        (/\ jobs[i].max_retries = 1
         /\ jobs[i].last_error = ErrTimeout
         /\ runs[jobs[i].id] = 1
         /\ \A j \in JobIds \ {jobs[i].id} : runs[j] = 0
         /\ dlqRetries[jobs[i].id] = 0)
            => /\ jobs[i].state = StateDead
               /\ jobs[i].attempts = 1
               /\ delays[jobs[i].id] = <<>>
               /\ GetMetric("jobs_timeout") = 1

C18_OnePoolPerProcess ==
    \A v, w \in Running : ProcOf[v[1]] = ProcOf[w[1]] => v[1] = w[1]

\* C19: StopWorkers returns only when every worker loop of its pool has
\* returned and no attempt is left in flight (no job is processing); it
\* removes the pid file as it returns; and a StopWorkers call that has begun
\* returns in the end.
C19_StopWaitsAndReturns ==
    /\ [][\A o \in Pools :
             (stopping[ProcOf[o]].pool = o /\ stopping'[ProcOf[o]].pool = 0)
                 => /\ \A w \in Workers : w[1] = o => wk[w].pc = "off"
                    /\ \A i \in 1 .. Len(jobs) : jobs[i].state # StateProcessing
                    /\ pidFile' = 0]_vars
    /\ \A o \in Pools :
          (stopping[ProcOf[o]].pool = o) ~> (stopping[ProcOf[o]].pool = 0)

\* StopWorkers has returned, after the pool has worked
C19_Witness ==
    /\ stopping[1] = Exited
    /\ pidFile = 0
    /\ \E i \in 1 .. Len(jobs) : jobs[i].attempts > 0 /\ jobs[i].state # StatePending

\* C20: a worker loop returns only from the top of its loop and only when its
\* pool is cancelled: a worker that has claimed a job does not go away before
\* it is back at the top, cancellation requested or not.
C20_ExitOnlyAtLoopTop ==
    [][\A w \in Workers :
          (wk[w].pc # "off" /\ wk'[w].pc = "off")
              => wk[w].pc = "loop" /\ cancelled[w[1]]]_vars

\* cancellation is requested while a worker is in the attempt lifecycle
C20_Witness ==
    \E w \in Workers : cancelled[w[1]] /\ wk[w].pc \in {"read", "retry", "pending"}

\* C21: a job in state processing whose locked_at is older than the lease
\* window is one the first SELECT of GetNextPendingJob accepts, so that the
\* next call by another worker can claim it.
C21_StaleLockReclaimable ==
    \A i \in 1 .. Len(jobs) :
        (/\ jobs[i].state = StateProcessing
         /\ jobs[i].locked_at # NullTime
         /\ jobs[i].locked_at < now - LeaseSeconds)
            => Eligible(jobs[i], now)

\* C22: whenever no attempt is in progress (no worker is between the return
\* of executeJob and the last store call of processJob), jobs_processed is
\* the number of attempts executed and equals jobs_succeeded + jobs_failed,
\* and jobs_timeout is at most jobs_failed.
C22_MetricsCountAttempts ==
    (\A w \in Workers : wk[w].pc \in {"off", "loop", "claim", "fetch", "job"})
        => /\ GetMetric("jobs_processed") = runs["a"] + runs["b"]
           /\ GetMetric("jobs_processed")
                  = GetMetric("jobs_succeeded") + GetMetric("jobs_failed")
           /\ GetMetric("jobs_timeout") <= GetMetric("jobs_failed")

\* C23: whenever no attempt of a job is in progress, job_executions holds one
\* row for each executed attempt of the job.
C23_OneRecordPerAttempt ==
    \A j \in JobIds :
        (\A w \in Workers :
            wk[w].jobID = j => wk[w].pc \in {"off", "loop", "claim", "fetch", "job"})
            => Cardinality({k \in 1 .. Len(job_executions) :
                               job_executions[k].job_id = j}) = runs[j]

\* C24: a job that carries a next_retry_at is pending and has had an attempt
\* executed; a processing, completed or dead job carries none.  (Stated for
\* the states in which no worker is inside a call for the job: between the
\* SetNextRetryAt and the UpdateJobState of one retry the job is still
\* processing.)
C24_RetryAtOnlyWhilePending ==
    \A i \in 1 .. Len(jobs) :
        (/\ jobs[i].next_retry_at # NullTime
         /\ \A w \in Workers : wk[w].pc # "off" /\ wk[w].pc # "loop"
                                   => wk[w].jobID # jobs[i].id)
            => jobs[i].state = StatePending /\ runs[jobs[i].id] > 0

\* C25: an error of a store call of GetNextPendingJob sends the worker back to
\* the top of its loop and nowhere else; a worker loop ends only when its pool
\* is cancelled; and once no store call fails any more, a job that is
\* eligible while a worker of a pool that is not cancelled runs gets executed.
C25_PollErrorKeepsLooping ==
    /\ [][\A w \in Workers :
             /\ (faults' # faults /\ wk[w].pc \in {"loop", "claim", "fetch"}
                    /\ wk'[w] # wk[w]) => wk'[w] = LoopLocals
             /\ (faults' # faults /\ wk[w].pc = "loop") => wk'[w].pc = "loop"
             /\ (wk[w].pc # "off" /\ wk'[w].pc = "off") => cancelled[w[1]]]_vars
    /\ (/\ faults = MaxFaults
        /\ runs["a"] = 0
        /\ \E i \in 1 .. Len(jobs) : jobs[i].id = "a" /\ Eligible(jobs[i], now)
        /\ \E w \in Running : ~cancelled[w[1]])
           ~> (runs["a"] > 0 \/ cancelled[1])

\* the last SELECT of GetNextPendingJob has failed for worker-1, which had
\* claimed job a, and worker-1 is at the top of its loop
C25_Witness ==
    /\ faults = MaxFaults
    /\ runs["a"] = 0
    /\ wk[<<1, 1>>].pc = "loop" /\ ~cancelled[1]
    /\ \E i \in 1 .. Len(jobs) :
          jobs[i].state = StateProcessing /\ jobs[i].locked_by = WorkerID(<<1, 1>>)

C27_MaxRetriesPositive ==
    \A i \in 1 .. Len(jobs) : jobs[i].max_retries >= 1

\* C28: with a worker running, every stored job reaches completed or dead in
\* the end; a completed job has had an attempt that succeeded and a dead job
\* has had none.
C28_EveryJobTerminates ==
    /\ \A j \in JobIds :
          (Running # {} /\ \E i \in 1 .. Len(jobs) : jobs[i].id = j)
              ~> (\E i \in 1 .. Len(jobs) :
                     jobs[i].id = j /\ jobs[i].state \in {StateCompleted, StateDead})
    /\ [](\A i \in 1 .. Len(jobs) :
             /\ jobs[i].state = StateCompleted => succeeded[jobs[i].id]
             /\ jobs[i].state = StateDead => ~succeeded[jobs[i].id])

\* C29: a completed job stays completed, its attempts no longer grows, and no
\* GetNextPendingJob call returns it.
C29_CompletedIsTerminal ==
    [][\A i \in 1 .. Len(jobs) :
          jobs[i].state = StateCompleted
              => /\ jobs'[i].state = StateCompleted
                 /\ jobs'[i].attempts = jobs[i].attempts
                 /\ \A w \in Workers :
                       (wk[w].pc = "fetch" /\ wk'[w].pc = "job")
                           => wk'[w].jobID # jobs[i].id]_vars

\* C30: no step changes the id, command, max_retries or created_at of a stored
\* job, or removes the job.
C30_IdentityFieldsKept ==
    [][/\ Len(jobs') >= Len(jobs)
       /\ \A i \in 1 .. Len(jobs) :
             /\ jobs'[i].id = jobs[i].id
             /\ jobs'[i].command = jobs[i].command
             /\ jobs'[i].max_retries = jobs[i].max_retries
             /\ jobs'[i].created_at = jobs[i].created_at]_vars

\* job a has been claimed, run, given a next_retry_at, moved to dead and back
\* by a DLQ retry, and a second submission of its id has been rejected
C30_Witness ==
    /\ faults = 0
    /\ enqueueErr = ErrCreateJob
    /\ dlqRetries["a"] > 0
    /\ \E i \in 1 .. Len(jobs) :
          /\ jobs[i].id = "a"
          /\ jobs[i].attempts > 0
          /\ jobs[i].next_retry_at # NullTime
          /\ jobs[i].created_at < now

\* C31: a GetNextPendingJob call whose claim UPDATE affects no row (the job
\* it selected is no longer pending) returns no job: no row changes and the
\* worker is back at the top of its loop, whatever other jobs are eligible.
C31_LostClaimReturnsNoJob ==
    [][\A w \in Workers :
          (/\ wk[w].pc = "claim"
           /\ wk'[w].pc # "claim"
           /\ \A i \in 1 .. Len(jobs) :
                 jobs[i].id = wk[w].jobID => jobs[i].state # StatePending)
              => jobs' = jobs /\ wk'[w] = LoopLocals]_vars

\* a worker is about to run the claim UPDATE for a job another worker has
\* won, while another job is eligible
C31_Witness ==
    \E w \in Workers :
        /\ wk[w].pc = "claim"
        /\ wk[w].raced
        /\ \E i \in 1 .. Len(jobs) :
              jobs[i].id = wk[w].jobID /\ jobs[i].state = StateProcessing
        /\ SelectNextPending(jobs, now) # 0

\* C32: for every worker id at most one job is processing with that id as
\* its locked_by, and a worker that is at the top of its loop or inside
\* GetNextPendingJob before the claim UPDATE holds none.
C32_OneJobPerWorkerId ==
    /\ \A n \in 1 .. Len(WorkerName) :
          Cardinality({i \in 1 .. Len(jobs) :
                          /\ jobs[i].state = StateProcessing
                          /\ jobs[i].locked_by = WorkerName[n]}) <= 1
    /\ \A w \in Workers :
          wk[w].pc \in {"loop", "claim"}
              => \A i \in 1 .. Len(jobs) :
                    ~(jobs[i].state = StateProcessing /\ jobs[i].locked_by = WorkerID(w))

\* C33: worker.pid exists whenever a worker loop runs in some process on the
\* data directory.
C33_PidFileWhileRunning == Running # {} => pidFile # 0

\* C34: when a worker's UpdateJobState(pending) returns a failed job to
\* pending, the row's next_retry_at is set and is the one this attempt's
\* SetNextRetryAt wrote: a time of this attempt plus the delay of the
\* attempt count the worker read.
C34_RetryAtBeforePending ==
    [][\A w \in Workers :
          \A i \in 1 .. Len(jobs) :
              (/\ wk[w].pc = "pending"
               /\ wk'[w].pc # "pending"
               /\ jobs[i].id = wk[w].jobID
               /\ jobs[i].state # StatePending
               /\ jobs'[i].state = StatePending)
                  => /\ jobs'[i].next_retry_at # NullTime
                     /\ delays[jobs[i].id] # <<>>
                     /\ delays[jobs[i].id][Len(delays[jobs[i].id])]
                           = Seconds(CalculateBackoffDelay(wk[w].cur,
                                                           <<DefaultBackoffBase, 1>>))
                     /\ jobs'[i].next_retry_at
                           - delays[jobs[i].id][Len(delays[jobs[i].id])] \in 0 .. now]_vars

\* C35: a job is moved from pending to processing only at a time at or after
\* its next_retry_at.
C35_BackoffRespected ==
    [][\A i \in 1 .. Len(jobs) :
          (jobs[i].state = StatePending /\ jobs'[i].state = StateProcessing)
              => jobs[i].next_retry_at = NullTime \/ jobs[i].next_retry_at <= now]_vars

\* C36: a GetNextPendingJob call whose claim UPDATE moved a row to processing
\* returns that row's job: not another job, not "no job", not an error.
C36_ReturnsClaimedJob ==
    [][\A w \in Workers :
          (wk[w].pc = "fetch" /\ wk'[w].pc # "fetch")
              => wk'[w].pc = "job" /\ wk'[w].jobID = wk[w].jobID]_vars

\* C37: when the StopWorkers call on a pool returns, no job is processing
\* with one of that pool's workers as its locked_by.
C37_NothingLeftProcessing ==
    [][\A o \in Pools :
          (stopping[ProcOf[o]].pool = o /\ stopping'[ProcOf[o]].pool # o)
              => \A i \in 1 .. Len(jobs') :
                    ~(/\ jobs'[i].state = StateProcessing
                      /\ \E w \in Workers : w[1] = o /\ jobs'[i].locked_by = WorkerID(w))]_vars

\* C38: the state of every stored job is one of the five JobState constants,
\* every job is listed by `list --state` for exactly one of them, and the
\* five counts of `status` add up to the number of jobs.
C38_StateInEnum ==
    /\ \A i \in 1 .. Len(jobs) :
          /\ jobs[i].state \in {StatePending, StateProcessing, StateCompleted,
                                StateFailed, StateDead}
          /\ Cardinality({s \in {StatePending, StateProcessing, StateCompleted,
                                 StateFailed, StateDead} :
                             jobs[i].id \in listCmd(jobs, s).ids}) = 1
    /\ statusCmd(jobs)[1] + statusCmd(jobs)[2] + statusCmd(jobs)[3]
          + statusCmd(jobs)[4] + statusCmd(jobs)[5] = Len(jobs)

\* C39: a job that has not been put back by DLQ retry has had its command
\* executed at most max_retries times.
C39_AtMostMaxRetriesRuns ==
    \A i \in 1 .. Len(jobs) :
        dlqRetries[jobs[i].id] = 0 => runs[jobs[i].id] <= jobs[i].max_retries

====
